---------------------------- MODULE Spec2Model ----------------------------
(***************************************************************************)
(* The real-time collaboration transport of StartUp4:                      *)
(*   - SimpleWebSocketService (the Connection Manager),                    *)
(*     src/src/services/simpleWebSocketService.ts, lines 147-373;          *)
(*   - CollaborationService (the Session), src/unnamed/part_000,           *)
(*     lines 152-476.                                                      *)
(*                                                                         *)
(* Strings are sequences of chunks: "/" and "_" are chunks of their own,   *)
(* every other chunk is free of both, so that split('/') and split('_')    *)
(* are computed as the code computes them.                                 *)
(***************************************************************************)
EXTENDS Integers, Sequences, FiniteSets, TLC

VARIABLES
    now,                \* Date.now()
    sockets,            \* every WebSocket object constructed so far
    connections,        \* SimpleWebSocketService.connections:       id -> socket
    reconnectTimeouts,  \* SimpleWebSocketService.reconnectTimeouts: id -> timer handle
    reconnectAttempts,  \* SimpleWebSocketService.reconnectAttempts: id -> count
    timers,             \* the manager's setTimeout handles that are pending
    session,            \* the fields of the CollaborationService instance
    stimers,            \* the session's setTimeout handles that are pending
    last                \* the handler that ran last, with its inputs

mgrVars == <<sockets, connections, reconnectTimeouts, reconnectAttempts, timers>>
sessVars == <<session, stimers>>
vars == <<now, sockets, connections, reconnectTimeouts, reconnectAttempts, timers,
          session, stimers, last>>

----------------------------------------------------------------------------
(* Bounds of the model *)

MaxSockets == 2
MaxTime == 1
MaxChainSockets == 6
MaxChainTime == 6
MaxSessionSockets == 3
MaxSessionTime == 2
MaxSent == 1
MaxCallSockets == 2
MaxCallTime == 1
MaxEventSockets == 1
MaxEventTime == 1
MaxOnceHandlers == 3
MaxHandlers == 2

(* Program constants *)

maxReconnectAttempts == 5
baseReconnectDelay == 2000
delayCap == 30000
jitterRange == 2000
NormalClosure == 1000
GoingAway == 1001
AbnormalClosure == 1006
InternalError == 1011

CloseCodes == {NormalClosure, GoingAway, AbnormalClosure, InternalError}

\* Math.random() * 2000 lies in [0, 2000): the two ends of the range.
Jitters == {0, jitterRange - 1}

Rooms == { <<"a">>, <<"a", "_", "b">> }
Users == { "u1" }

\* The diagram the Session is opened for.
SessionRooms == { <<"a">> }

----------------------------------------------------------------------------
(* String functions *)

RECURSIVE FirstIndex(_, _, _)
FirstIndex(s, d, i) ==
    IF i > Len(s) THEN 0
    ELSE IF s[i] = d THEN i
    ELSE FirstIndex(s, d, i + 1)

\* String.prototype.split(d): the pieces between the occurrences of d.
RECURSIVE Split(_, _)
Split(s, d) ==
    LET i == FirstIndex(s, d, 1)
    IN  IF i = 0 THEN << s >>
        ELSE << SubSeq(s, 1, i - 1) >> \o Split(SubSeq(s, i + 1, Len(s)), d)

\* Array.prototype.slice(-2)
SliceLast2(parts) ==
    IF Len(parts) <= 2 THEN parts ELSE SubSeq(parts, Len(parts) - 1, Len(parts))

\* Array.prototype.join(d)
RECURSIVE Join(_, _)
Join(parts, d) ==
    IF Len(parts) = 0 THEN << >>
    ELSE IF Len(parts) = 1 THEN parts[1]
    ELSE parts[1] \o << d >> \o Join(Tail(parts), d)

\* getWebSocketUrl(schemaId), development branch
getWebSocketUrl(room) ==
    << "ws:", "/", "/", "localhost:5000", "/", "ws", "/", "collaboration", "/" >> \o room

Urls == { getWebSocketUrl(r) : r \in Rooms }

\* url.split('/').slice(-2).join('/')
UrlPath(url) == Join(SliceLast2(Split(url, "/")), "/")

\* `${urlPath}_${Date.now()}`
ConnectionId(url, t) == UrlPath(url) \o << "_", ToString(t) >>

\* id.split('_')[0]
IdPath(id) == Split(id, "_")[1]

----------------------------------------------------------------------------
(* Map functions *)

MapPut(f, k, v) == [x \in (DOMAIN f) \cup {k} |-> IF x = k THEN v ELSE f[x]]
MapDel(f, ks) == [x \in (DOMAIN f) \ ks |-> f[x]]
EmptyMap == [x \in {} |-> 0]

----------------------------------------------------------------------------
(* The manager's state as one value, so that handlers compose *)

Mgr == [sockets |-> sockets, connections |-> connections,
        reconnectTimeouts |-> reconnectTimeouts,
        reconnectAttempts |-> reconnectAttempts, timers |-> timers]

SetMgr(m) ==
    /\ sockets' = m.sockets
    /\ connections' = m.connections
    /\ reconnectTimeouts' = m.reconnectTimeouts
    /\ reconnectAttempts' = m.reconnectAttempts
    /\ timers' = m.timers

\* WebSocket.close(code, reason): a socket that is connecting or open starts
\* closing; on a closing or closed socket the call does nothing.
SocketCloseCall(s, code) ==
    IF s.state \in {"CONNECTING", "OPEN"}
    THEN [s EXCEPT !.state = "CLOSING", !.closeArg = code]
    ELSE s

\* A socket whose close event has been delivered acts no more: it is kept as
\* one value, whatever it was.
ClosedSocket ==
    [id |-> << >>, url |-> << >>, enableReconnect |-> FALSE, owner |-> "none",
     state |-> "CLOSED", established |-> FALSE, closeArg |-> 0, gen |-> 0,
     sent |-> << >>]

\* A timer handle is the number of the socket whose close event set it (a
\* socket closes once).  clearTimeout(handle): a timer that has not fired yet
\* never fires; a timer that has fired or was cleared is no longer held.
ClearTimeout(tms, hs) == [h \in (DOMAIN tms) \ hs |-> tms[h]]

\* The ids connect(url) takes for connections of the same endpoint.
ExistingConnections(conns, urlPath) ==
    { id \in DOMAIN conns : IdPath(id) = urlPath }

\* existingConnections.forEach(...): socket.close(1000), connections.delete(id),
\* clearTimeout + reconnectTimeouts.delete(id), reconnectAttempts.delete(id).
TearDownExisting(m, ex) ==
    LET exSocks == { m.connections[id] : id \in ex }
        exTimers == { m.reconnectTimeouts[id] : id \in ex \cap DOMAIN m.reconnectTimeouts }
    IN  [m EXCEPT
          !.sockets = [k \in DOMAIN m.sockets |->
                          IF k \in exSocks
                          THEN SocketCloseCall(m.sockets[k], NormalClosure)
                          ELSE m.sockets[k]],
          !.connections = MapDel(m.connections, ex),
          !.timers = ClearTimeout(m.timers, exTimers),
          !.reconnectTimeouts = MapDel(m.reconnectTimeouts, ex),
          !.reconnectAttempts = MapDel(m.reconnectAttempts, ex)]

\* new WebSocket(url) with the handlers of connect(url, options) attached:
\* the handlers capture connectionId, url and options.
\* gen counts the automatic reconnects in a row, with no successful open in
\* between, that led to this socket.
NewSocket(id, url, opts, gen) ==
    [id |-> id, url |-> url, enableReconnect |-> opts.enableReconnect,
     owner |-> opts.owner, state |-> "CONNECTING", established |-> FALSE,
     closeArg |-> 0, gen |-> gen, sent |-> << >>]

\* SimpleWebSocketService.connect(url, options) called at time t.
MgrConnect(m, url, opts, t, gen) ==
    LET urlPath == UrlPath(url)
        connectionId == ConnectionId(url, t)
        m1 == TearDownExisting(m, ExistingConnections(m.connections, urlPath))
        k == Len(m1.sockets) + 1
    IN  [m1 EXCEPT
          !.sockets = Append(m1.sockets, NewSocket(connectionId, url, opts, gen)),
          !.reconnectAttempts = MapPut(m1.reconnectAttempts, connectionId, 0),
          !.connections = MapPut(m1.connections, connectionId, k)]

\* SimpleWebSocketService.connect(url, options) when new WebSocket(url) throws:
\* the statements before the try block have run, the catch block rethrows.
RegisteringMgrConnectThrows(m, url, t) ==
    [mgr |-> [m EXCEPT !.reconnectAttempts = MapPut(@, ConnectionId(url, t), 0)],
     thrown |-> TRUE]
MgrConnectThrows(m, url, t) ==
    [mgr |-> TearDownExisting(m, ExistingConnections(m.connections, UrlPath(url))),
     thrown |-> TRUE]

\* socket.onopen
OnOpen(m, k) ==
    [m EXCEPT
      !.sockets[k].state = "OPEN",
      !.sockets[k].established = TRUE,
      !.sockets[k].gen = 0,
      !.reconnectAttempts = MapPut(m.reconnectAttempts, m.sockets[k].id, 0)]

\* shouldReconnect of socket.onclose
LaxShouldReconnect(enable, code, wasClean) ==
    enable /\ code # NormalClosure /\ code # GoingAway
ShouldReconnect(enable, code, wasClean) ==
    /\ enable
    /\ code # NormalClosure
    /\ code # GoingAway
    /\ code # AbnormalClosure
    /\ ~wasClean

RECURSIVE Pow2(_)
Pow2(n) == IF n = 0 THEN 1 ELSE 2 * Pow2(n - 1)

Min(a, b) == IF a <= b THEN a ELSE b

\* Math.min(baseDelay * Math.pow(2, attempts), 30000) + jitter
UncappedReconnectDelay(attempts, jitter) == baseReconnectDelay * Pow2(attempts) + jitter
FixedReconnectDelay(attempts, jitter) == 5000
ReconnectDelay(attempts, jitter) ==
    Min(baseReconnectDelay * Pow2(attempts), delayCap) + jitter

\* this.reconnectAttempts.get(connectionId) || 0
AttemptsOf(m, id) ==
    IF id \in DOMAIN m.reconnectAttempts THEN m.reconnectAttempts[id] ELSE 0

\* socket.onclose, at time t, for the event {code, wasClean}
OnClose(m, k, code, wasClean, jitter, t) ==
    LET s == m.sockets[k]
        id == s.id
        hadTimer == id \in DOMAIN m.reconnectTimeouts
        m1 == [m EXCEPT
                !.sockets[k] = ClosedSocket,
                !.connections = MapDel(m.connections, {id}),
                !.timers = IF hadTimer
                           THEN ClearTimeout(m.timers, {m.reconnectTimeouts[id]})
                           ELSE m.timers,
                !.reconnectTimeouts = MapDel(m.reconnectTimeouts, {id})]
        attempts == AttemptsOf(m1, id)
    IN  IF ShouldReconnect(s.enableReconnect, code, wasClean)
        THEN IF attempts < maxReconnectAttempts
             THEN [m1 EXCEPT
                    !.timers = MapPut(m1.timers, k,
                        [id |-> id, url |-> s.url, enableReconnect |-> s.enableReconnect,
                         owner |-> s.owner, attempts |-> attempts,
                         gen |-> s.gen + 1, at |-> t]),
                    !.reconnectTimeouts = MapPut(m1.reconnectTimeouts, id, k)]
             ELSE [m1 EXCEPT !.reconnectAttempts = MapDel(m1.reconnectAttempts, {id})]
        ELSE [m1 EXCEPT !.reconnectAttempts = MapDel(m1.reconnectAttempts, {id})]

\* The callback of the retry timer h, run at time t.
TimerStillWanted(m, id) == id \in DOMAIN m.reconnectAttempts

OnRetryTimer(m, h, t) ==
    LET tm == m.timers[h]
    IN  IF TimerStillWanted(m, tm.id)
        THEN LET m1 == [m EXCEPT
                          !.timers = ClearTimeout(m.timers, {h}),
                          !.reconnectAttempts =
                              MapPut(m.reconnectAttempts, tm.id, tm.attempts + 1)]
             IN  MgrConnect(m1, tm.url,
                            [enableReconnect |-> tm.enableReconnect, owner |-> tm.owner],
                            t, tm.gen)
        ELSE [m EXCEPT !.timers = ClearTimeout(m.timers, {h})]

\* The callback of the retry timer h, run at time t, when new WebSocket(url)
\* throws: the callback catches what connect throws.
OnRetryTimerThrows(m, h, t) ==
    LET tm == m.timers[h]
    IN  IF TimerStillWanted(m, tm.id)
        THEN MgrConnectThrows(
                 [m EXCEPT !.timers = ClearTimeout(m.timers, {h}),
                           !.reconnectAttempts =
                               MapPut(m.reconnectAttempts, tm.id, tm.attempts + 1)],
                 tm.url, t).mgr
        ELSE [m EXCEPT !.timers = ClearTimeout(m.timers, {h})]

\* SimpleWebSocketService.disconnect(connectionId)
SocketOnlyMgrDisconnect(m, id) ==
    IF id \in DOMAIN m.connections
    THEN [m EXCEPT
           !.sockets[m.connections[id]] =
               SocketCloseCall(m.sockets[m.connections[id]], NormalClosure),
           !.connections = MapDel(m.connections, {id})]
    ELSE m
WipingMgrDisconnect(m, id) ==
    [SocketOnlyMgrDisconnect(m, id) EXCEPT
       !.timers = EmptyMap, !.reconnectTimeouts = EmptyMap,
       !.reconnectAttempts = EmptyMap]
MgrDisconnect(m, id) ==
    LET m1 == IF id \in DOMAIN m.connections
              THEN [m EXCEPT
                     !.sockets[m.connections[id]] =
                         SocketCloseCall(m.sockets[m.connections[id]], NormalClosure),
                     !.connections = MapDel(m.connections, {id})]
              ELSE m
        m2 == IF id \in DOMAIN m1.reconnectTimeouts
              THEN [m1 EXCEPT
                     !.timers = ClearTimeout(m1.timers, {m1.reconnectTimeouts[id]}),
                     !.reconnectTimeouts = MapDel(m1.reconnectTimeouts, {id})]
              ELSE m1
    IN  [m2 EXCEPT !.reconnectAttempts = MapDel(m2.reconnectAttempts, {id})]

\* SimpleWebSocketService.disconnectAll()
MapsOnlyMgrDisconnectAll(m) ==
    [m EXCEPT !.connections = EmptyMap, !.reconnectTimeouts = EmptyMap,
              !.reconnectAttempts = EmptyMap]
MgrDisconnectAll(m) ==
    LET tracked == { m.connections[id] : id \in DOMAIN m.connections }
        held == { m.reconnectTimeouts[id] : id \in DOMAIN m.reconnectTimeouts }
    IN  [m EXCEPT
          !.sockets = [k \in DOMAIN m.sockets |->
                          IF k \in tracked
                          THEN SocketCloseCall(m.sockets[k], NormalClosure)
                          ELSE m.sockets[k]],
          !.connections = EmptyMap,
          !.timers = ClearTimeout(m.timers, held),
          !.reconnectTimeouts = EmptyMap,
          !.reconnectAttempts = EmptyMap]

----------------------------------------------------------------------------
(* The close events a socket can deliver.  After the client has called     *)
(* close(code): on an established connection the event is the clean one    *)
(* with that code, or 1006 when the connection drops before the closing    *)
(* handshake ends; on a connection that was never established it is 1006.  *)
(* Otherwise the server or the network closes: any code, clean or not.     *)

CloseEvents(s) ==
    IF s.state = "CLOSING"
    THEN { [code |-> AbnormalClosure, wasClean |-> FALSE] }
         \cup IF s.established
              THEN { [code |-> s.closeArg, wasClean |-> TRUE] }
              ELSE {}
    ELSE [code : CloseCodes, wasClean : BOOLEAN]

\* The ids a caller of disconnect(id) passes: those the manager still holds
\* anything for, and one it never returned.
UnknownId == << "collaboration", "/", "a", "_", "never" >>
PendingTimers == DOMAIN timers
LiveSockets == { k \in DOMAIN sockets : sockets[k].state # "CLOSED" }
KnownIds ==
    { sockets[k].id : k \in LiveSockets } \cup { timers[h].id : h \in PendingTimers }
    \cup DOMAIN reconnectAttempts \cup DOMAIN reconnectTimeouts \cup { UnknownId }

----------------------------------------------------------------------------
(* The manager's read-only methods *)

\* SimpleWebSocketService.isConnected(connectionId)
TrackedIsConnected(m, id) == id \in DOMAIN m.connections
IsConnected(m, id) ==
    id \in DOMAIN m.connections /\ m.sockets[m.connections[id]].state = "OPEN"

\* SimpleWebSocketService.sendMessage(connectionId, message)
MgrSendMessage(m, id, message) ==
    IF IsConnected(m, id)
    THEN [m EXCEPT !.sockets[m.connections[id]].sent = Append(@, message)]
    ELSE m

----------------------------------------------------------------------------
(* The Session: CollaborationService *)

NoUser == ""
NoRoom == << >>
NoId == << >>

\* CollaborationService's fields after construction; afterDisconnect records
\* that disconnect() was called and connect() has not been called since.
NewSession ==
    [currentUser |-> NoUser, schemaId |-> NoRoom, connectionId |-> NoId,
     isConnected |-> FALSE, isIntentionalDisconnect |-> FALSE,
     afterDisconnect |-> FALSE, eventHandlers |-> EmptyMap]

\* The session's pending timers: the 200 ms timer of onOpen under the number
\* of the socket that opened, the time it was set at; the 100 ms timers of
\* disconnect() in the order they were set, the time each was set at.
NoShortTimers == [join |-> EmptyMap, leave |-> << >>]

\* CollaborationService.sendMessage(message)
SessSendMessage(m, ss, message) ==
    IF ss.connectionId # NoId /\ ss.isConnected /\ IsConnected(m, ss.connectionId)
    THEN MgrSendMessage(m, ss.connectionId, message)
    ELSE m

\* sendCursorUpdate, sendSchemaChange, sendUserSelection, updatePresence: the
\* envelope is built first, then handed to sendMessage.  sendCursorUpdate
\* returns when there is no current user; the other three read
\* this.currentUser!.id, which throws a TypeError when currentUser is null.
SendKinds == { "cursor_update", "schema_change", "user_selection", "presence_update" }

UserMessage(ss, kind) == [type |-> kind, userId |-> ss.currentUser]

SessSend(m, ss, kind) ==
    IF ss.currentUser = NoUser
    THEN [mgr |-> m, thrown |-> kind # "cursor_update"]
    ELSE [mgr |-> SessSendMessage(m, ss, UserMessage(ss, kind)), thrown |-> FALSE]

\* JavaScript values as they come out of JSON.parse, and undefined: a value
\* is its type tag t and, but for null and undefined, its content v; the
\* content of an object is the function from its property names to values.
Undefined == [t |-> "undefined"]
Null == [t |-> "null"]
Str(x) == [t |-> "string", v |-> x]
Num(x) == [t |-> "number", v |-> ToString(x)]
Obj(f) == [t |-> "object", v |-> f]
Unparseable == [t |-> "unparseable"]

\* value.key on a value that is neither null nor undefined
Get(value, key) ==
    IF value.t = "object" /\ key \in DOMAIN value.v THEN value.v[key] ELSE Undefined
\* the value as a condition
Truthy(value) ==
    \/ value.t = "object"
    \/ value.t = "string" /\ value.v # ""
    \/ value.t = "number" /\ value.v # "0"
\* typeof value
TypeOf(value) == IF value.t = "null" THEN "object" ELSE value.t

\* this.eventHandlers.get(event), an array that was emptied included
HandlersOf(ss, event) ==
    IF event \in DOMAIN ss.eventHandlers THEN ss.eventHandlers[event] ELSE << >>

\* CollaborationService.on(event, handler)
On(ss, event, handler) ==
    [ss EXCEPT !.eventHandlers =
        MapPut(@, event, (IF event \in DOMAIN @ THEN @[event] ELSE << >>) \o << handler >>)]

\* handlers.indexOf(handler)
RECURSIVE IndexOf(_, _, _)
IndexOf(hs, handler, i) ==
    IF i > Len(hs) THEN 0
    ELSE IF hs[i] = handler THEN i ELSE IndexOf(hs, handler, i + 1)

\* handlers.splice(index, 1)
Splice1(hs, index) == SubSeq(hs, 1, index - 1) \o SubSeq(hs, index + 1, Len(hs))

\* CollaborationService.off(event, handler).  The code keeps the array of an
\* event when its last handler is removed; on() and emit() treat an empty
\* array as they treat a missing one, and the model holds no entry for it.
Off(ss, event, handler) ==
    IF event \in DOMAIN ss.eventHandlers
       /\ IndexOf(ss.eventHandlers[event], handler, 1) > 0
    THEN LET hs == Splice1(ss.eventHandlers[event],
                           IndexOf(ss.eventHandlers[event], handler, 1))
         IN  [ss EXCEPT !.eventHandlers =
                 IF hs = << >> THEN MapDel(@, {event}) ELSE MapPut(@, event, hs)]
    ELSE ss

\* The subscribers: one returns, one throws, one calls sendCursorUpdate; one
\* unsubscribes itself when it is called, one subscribes a returning handler
\* to the same event.
Handlers == { "quiet", "thrower", "sender" }
SelfChangingHandlers == { "quiet", "once", "adder" }

\* handler(data), called by emit(event, data)
RunHandler(m, ss, handler, event) ==
    [mgr |-> IF handler = "sender" THEN SessSend(m, ss, "cursor_update").mgr ELSE m,
     ss |-> IF handler = "once" THEN Off(ss, event, handler)
            ELSE IF handler = "adder" THEN On(ss, event, "quiet")
            ELSE ss,
     thrown |-> handler = "thrower"]

NothingInvoked(m, ss) == [mgr |-> m, ss |-> ss, invoked |-> << >>, escaped |-> FALSE]

\* handlers.forEach(handler => { try { handler(data) } catch { log } }):
\* forEach visits the indexes 1 .. len, len being the length of the array when
\* the loop began, reads the array at each index when it gets there, and
\* passes over an index the array no longer has.
RECURSIVE UncaughtForEach(_, _, _, _, _, _)
UncaughtForEach(m, ss, event, data, i, len) ==
    IF i > len THEN NothingInvoked(m, ss)
    ELSE IF i > Len(HandlersOf(ss, event))
    THEN UncaughtForEach(m, ss, event, data, i + 1, len)
    ELSE LET handler == HandlersOf(ss, event)[i]
             r == RunHandler(m, ss, handler, event)
             call == [handler |-> handler, event |-> event, data |-> data]
             rest == UncaughtForEach(r.mgr, r.ss, event, data, i + 1, len)
         IN  IF r.thrown
             THEN [mgr |-> r.mgr, ss |-> r.ss, invoked |-> << call >>, escaped |-> TRUE]
             ELSE [rest EXCEPT !.invoked = << call >> \o @]

RECURSIVE ForEachHandler(_, _, _, _, _, _)
ForEachHandler(m, ss, event, data, i, len) ==
    IF i > len THEN NothingInvoked(m, ss)
    ELSE IF i > Len(HandlersOf(ss, event))
    THEN ForEachHandler(m, ss, event, data, i + 1, len)
    ELSE LET handler == HandlersOf(ss, event)[i]
             r == RunHandler(m, ss, handler, event)
             call == [handler |-> handler, event |-> event, data |-> data]
             rest == ForEachHandler(r.mgr, r.ss, event, data, i + 1, len)
         IN  [rest EXCEPT !.invoked = << call >> \o @]

\* CollaborationService.emit(event, data)
Emit(m, ss, event, data) ==
    ForEachHandler(m, ss, event, data, 1, Len(HandlersOf(ss, event)))

\* The validation of the cursor_update case
UncheckedValidCursor(cursorData) == Truthy(cursorData)
ValidCursor(cursorData) ==
    /\ Truthy(cursorData)
    /\ TypeOf(cursorData) = "object"
    /\ Truthy(Get(cursorData, "userId"))
    /\ TypeOf(Get(cursorData, "userId")) = "string"

\* CollaborationService.handleMessage(message); message is neither null nor
\* undefined (socket.onmessage has read message.type before).
FallThroughHandleMessage(m, ss, message) ==
    LET type == Get(message, "type")
    IN  IF type = Str("connection_established") \/ type = Str("user_joined")
        THEN Emit(m, ss, "user_joined", Get(message, "user"))
        ELSE IF type = Str("user_left")
        THEN Emit(m, ss, "user_left", Get(message, "userId"))
        ELSE IF type = Str("cursor_update")
        THEN IF ValidCursor(Get(message, "data"))
             THEN Emit(m, ss, "cursor_update", Get(message, "data"))
             ELSE NothingInvoked(m, ss)
        ELSE IF type = Str("schema_change")
        THEN Emit(m, ss, "schema_change", message)
        ELSE IF type = Str("user_selection")
        THEN Emit(m, ss, "user_selection", Get(message, "data"))
        ELSE IF type = Str("presence_update")
        THEN Emit(m, ss, "presence_update", Get(message, "data"))
        ELSE NothingInvoked(m, ss)
HandleMessage(m, ss, message) ==
    LET type == Get(message, "type")
    IN  IF type = Str("user_joined")
        THEN Emit(m, ss, "user_joined", Get(message, "user"))
        ELSE IF type = Str("user_left")
        THEN Emit(m, ss, "user_left", Get(message, "userId"))
        ELSE IF type = Str("cursor_update")
        THEN IF ValidCursor(Get(message, "data"))
             THEN Emit(m, ss, "cursor_update", Get(message, "data"))
             ELSE NothingInvoked(m, ss)
        ELSE IF type = Str("schema_change")
        THEN Emit(m, ss, "schema_change", message)
        ELSE IF type = Str("user_selection")
        THEN Emit(m, ss, "user_selection", Get(message, "data"))
        ELSE IF type = Str("presence_update")
        THEN Emit(m, ss, "presence_update", Get(message, "data"))
        ELSE NothingInvoked(m, ss)

\* socket.onmessage(event) of a socket the Session opened; frame is what
\* JSON.parse(event.data) gives, or Unparseable when it throws.  The throw,
\* and the TypeError of data.type on null, are caught and logged.
OnMessage(m, ss, frame) ==
    IF frame = Unparseable \/ frame = Null
    THEN NothingInvoked(m, ss)
    ELSE HandleMessage(m, ss, frame)

\* new Date(timestamp).getTime() for the timestamps of the model: ISO strings,
\* two of them spellings of the same instant.
Timestamps ==
    { "1970-01-01T00:00:01Z", "1970-01-01T00:00:01.000Z", "1970-01-01T00:00:02Z" }
GetTime(timestamp) ==
    CASE timestamp = "1970-01-01T00:00:01Z" -> 1000
      [] timestamp = "1970-01-01T00:00:01.000Z" -> 1000
      [] timestamp = "1970-01-01T00:00:02Z" -> 2000

Max(a, b) == IF a >= b THEN a ELSE b

\* CollaborationService.mergeTableOperations(op1, op2):
\* { ...op1, data: { ...op1.data, ...op2.data, lastModified: Math.max(..) } }
MergeTableOperations(op1, op2) ==
    [op1 EXCEPT !.data =
        ("lastModified" :> Max(GetTime(op1.timestamp), GetTime(op2.timestamp)))
        @@ op2.data @@ op1.data]

\* CollaborationService.transformOperation(operation, otherOperation)
AnyTableTransformOperation(operation, otherOperation) ==
    IF operation.type = "table_update" /\ otherOperation.type = "table_update"
    THEN MergeTableOperations(operation, otherOperation)
    ELSE operation
TransformOperation(operation, otherOperation) ==
    IF operation.type = "table_update" /\ otherOperation.type = "table_update"
       /\ operation.tableId = otherOperation.tableId
    THEN MergeTableOperations(operation, otherOperation)
    ELSE operation

\* CollaborationService.resolveConflict(localChange, remoteChange)
LocalResolveConflict(localChange, remoteChange) == localChange
ResolveConflict(localChange, remoteChange) == remoteChange

\* options.onOpen of CollaborationService.connect, at time t.  It calls
\* resolve().  For a socket that Session.connect() constructed itself (gen = 0)
\* no error or close event has come before the open: the promise of that call
\* is pending and this open resolves it.
SessOnOpenResolves(s) == s.owner = "session" /\ s.gen = 0
SessOnOpen(ss) == [ss EXCEPT !.isConnected = TRUE]
SessOnOpenTimers(st, k, t) == [st EXCEPT !.join = MapPut(st.join, k, t)]

\* options.onClose of CollaborationService.connect
SessOnClose(ss) == [ss EXCEPT !.isConnected = FALSE]

\* enableReconnect: !this.isIntentionalDisconnect
SessOptions(ss) ==
    [enableReconnect |-> ~ss.isIntentionalDisconnect, owner |-> "session"]

JoinMessage(ss) ==
    [type |-> "user_join", userId |-> ss.currentUser, schemaId |-> ss.schemaId]
LeaveMessage(ss) ==
    [type |-> "user_leave", userId |-> ss.currentUser, schemaId |-> ss.schemaId]

ShortTimersSetAt ==
    { stimers.join[k] : k \in DOMAIN stimers.join }
    \cup { stimers.leave[i] : i \in DOMAIN stimers.leave }

----------------------------------------------------------------------------
(* Actions *)

Init ==
    /\ now = 0
    /\ sockets = << >>
    /\ connections = EmptyMap
    /\ reconnectTimeouts = EmptyMap
    /\ reconnectAttempts = EmptyMap
    /\ timers = EmptyMap
    /\ session = NewSession
    /\ stimers = NoShortTimers
    /\ last = [op |-> "init"]

\* The ids and the times the state holds.
IdsHeld ==
    { sockets[k].id : k \in LiveSockets } \cup { timers[h].id : h \in PendingTimers }
    \cup DOMAIN connections \cup DOMAIN reconnectAttempts \cup DOMAIN reconnectTimeouts
    \cup ({ session.connectionId } \ { NoId })
TimesHeld ==
    { id[Len(id)] : id \in IdsHeld }
    \cup { ToString(timers[h].at) : h \in PendingTimers }
    \cup { ToString(at) : at \in ShortTimersSetAt }

\* Time passes: Date.now() moves on.  Only an instant the state holds is left
\* behind: nothing tells two ticks in a row from one.
Tick ==
    /\ ToString(now) \in TimesHeld
    /\ now' = now + 1
    /\ UNCHANGED <<mgrVars, sessVars, last>>

\* A caller of the manager: connect(url, {enableReconnect: e})
Connect(url, e) ==
    /\ SetMgr(MgrConnect(Mgr, url, [enableReconnect |-> e, owner |-> "caller"], now, 0))
    /\ last' = [op |-> "connect", sock |-> Len(sockets) + 1,
                id |-> ConnectionId(url, now), url |-> url]
    /\ UNCHANGED <<now, sessVars>>

\* A caller of the manager: connect(url, {enableReconnect: e}) when the
\* WebSocket constructor throws.
ConnectThrows(url, e) ==
    /\ SetMgr(MgrConnectThrows(Mgr, url, now).mgr)
    /\ last' = [op |-> "connectThrows", id |-> ConnectionId(url, now), url |-> url,
                thrown |-> MgrConnectThrows(Mgr, url, now).thrown, before |-> Mgr]
    /\ UNCHANGED <<now, sessVars>>

\* The open event of socket k: socket.onopen, which calls options.onOpen.
SocketOpen(k) ==
    /\ sockets[k].state = "CONNECTING"
    /\ LET connected == Emit(OnOpen(Mgr, k), SessOnOpen(session), "connected", Undefined)
       IN  IF sockets[k].owner = "session"
           THEN /\ SetMgr(connected.mgr)
                /\ session' = connected.ss
                /\ stimers' = SessOnOpenTimers(stimers, k, now)
                /\ last' = [op |-> "open", sock |-> k, id |-> sockets[k].id,
                            resolves |-> SessOnOpenResolves(sockets[k]),
                            invoked |-> connected.invoked,
                            escaped |-> connected.escaped]
           ELSE /\ SetMgr(OnOpen(Mgr, k))
                /\ last' = [op |-> "open", sock |-> k, id |-> sockets[k].id,
                            resolves |-> SessOnOpenResolves(sockets[k]),
                            invoked |-> << >>, escaped |-> FALSE]
                /\ UNCHANGED sessVars
    /\ UNCHANGED now

\* The close event of socket k: socket.onclose, which calls options.onClose.
\* Math.random() is drawn only where a retry is scheduled.  The subscribers of
\* 'disconnected' run with the connected flag cleared: what they send is
\* dropped.
SocketClose(k) ==
    /\ sockets[k].state # "CLOSED"
    /\ \E ev \in CloseEvents(sockets[k]) :
       \E jitter \in (IF ShouldReconnect(sockets[k].enableReconnect, ev.code, ev.wasClean)
                      THEN Jitters ELSE {0}) :
          /\ SetMgr(OnClose(Mgr, k, ev.code, ev.wasClean, jitter, now))
          /\ last' = [op |-> "close", sock |-> k, id |-> sockets[k].id,
                      url |-> sockets[k].url,
                      enableReconnect |-> sockets[k].enableReconnect,
                      established |-> sockets[k].established,
                      closeArg |-> sockets[k].closeArg,
                      code |-> ev.code, wasClean |-> ev.wasClean,
                      attempts |-> AttemptsOf(Mgr, sockets[k].id),
                      gen |-> sockets[k].gen,
                      invoked |-> IF sockets[k].owner = "session"
                                  THEN Emit(Mgr, SessOnClose(session),
                                            "disconnected", Undefined).invoked
                                  ELSE << >>,
                      scheduled |-> k \in DOMAIN timers',
                      delay |-> IF k \in DOMAIN timers'
                                THEN ReconnectDelay(AttemptsOf(Mgr, sockets[k].id), jitter)
                                ELSE 0]
    /\ session' = IF sockets[k].owner = "session"
                  THEN Emit(Mgr, SessOnClose(session), "disconnected", Undefined).ss
                  ELSE session
    /\ UNCHANGED <<now, stimers>>

\* The retry timer h fires.  Its delay is at least 2000 ms: time has passed
\* since it was set, and every 100 ms or 200 ms timer set no later than it has
\* fired before.
RetryFire(h) ==
    /\ now > timers[h].at
    /\ \A at \in ShortTimersSetAt : at > timers[h].at
    /\ SetMgr(OnRetryTimer(Mgr, h, now))
    /\ last' = [op |-> "retry", timer |-> h, id |-> timers[h].id,
                wanted |-> TimerStillWanted(Mgr, timers[h].id),
                stored |-> AttemptsOf(Mgr, timers[h].id),
                sock |-> Len(sockets) + 1]
    /\ UNCHANGED <<now, sessVars>>

\* The retry timer h fires and the WebSocket constructor throws.
RetryFireThrows(h) ==
    /\ now > timers[h].at
    /\ \A at \in ShortTimersSetAt : at > timers[h].at
    /\ SetMgr(OnRetryTimerThrows(Mgr, h, now))
    /\ last' = [op |-> "retryThrows", timer |-> h, id |-> timers[h].id,
                wanted |-> TimerStillWanted(Mgr, timers[h].id), before |-> Mgr]
    /\ UNCHANGED <<now, sessVars>>

\* A caller of the manager: disconnect(id)
Disconnect(id) ==
    /\ SetMgr(MgrDisconnect(Mgr, id))
    /\ last' = [op |-> "disconnect", id |-> id,
                hadTimer |-> \E h \in PendingTimers : timers[h].id = id]
    /\ UNCHANGED <<now, sessVars>>

\* A caller of the manager: disconnectAll()
DisconnectAll ==
    /\ SetMgr(MgrDisconnectAll(Mgr))
    /\ last' = [op |-> "disconnectAll",
                tracked |-> { connections[id] : id \in DOMAIN connections },
                hadTimer |-> PendingTimers # {}]
    /\ UNCHANGED <<now, sessVars>>

\* A caller of the manager: sendMessage(id, message)
CallerMessages == { [type |-> "ping"] }

SocketStateOf(id) ==
    IF id \in DOMAIN connections THEN sockets[connections[id]].state ELSE "NOT_FOUND"

SentLogs == [k \in DOMAIN sockets |-> sockets[k].sent]

SendMessage(id, message) ==
    /\ SetMgr(MgrSendMessage(Mgr, id, message))
    /\ last' = [op |-> "send", id |-> id, message |-> message,
                state |-> SocketStateOf(id),
                sock |-> IF id \in DOMAIN connections THEN connections[id] ELSE 0,
                timerPending |-> \E h \in PendingTimers : timers[h].id = id,
                sentBefore |-> SentLogs]
    /\ UNCHANGED <<now, sessVars>>

\* CollaborationService.initialize(user, schemaId)
Initialize(u, r) ==
    /\ session' = [session EXCEPT !.currentUser = u, !.schemaId = r]
    /\ last' = [op |-> "initialize"]
    /\ UNCHANGED <<now, mgrVars, stimers>>

\* CollaborationService.connect()
UncheckedSessConnectCreates == ~(session.isConnected /\ session.connectionId # NoId)
SessConnectCreates ==
    /\ session.currentUser # NoUser
    /\ session.schemaId # NoRoom
    /\ ~(session.isConnected /\ session.connectionId # NoId)

SessConnect ==
    /\ IF SessConnectCreates
       THEN LET url == getWebSocketUrl(session.schemaId)
            IN  /\ SetMgr(MgrConnect(Mgr, url, SessOptions(session), now, 0))
                /\ session' = [session EXCEPT
                                 !.connectionId = ConnectionId(url, now),
                                 !.afterDisconnect = FALSE]
       ELSE /\ UNCHANGED mgrVars
            /\ session' = [session EXCEPT !.afterDisconnect = FALSE]
    /\ last' = [op |-> "sessionConnect", created |-> SessConnectCreates,
                thrown |-> FALSE,
                outcome |-> IF SessConnectCreates THEN "pending"
                            ELSE IF session.currentUser = NoUser \/ session.schemaId = NoRoom
                                 THEN "rejected" ELSE "resolved",
                sessionBefore |-> session, before |-> Mgr]
    /\ UNCHANGED <<now, stimers>>

\* CollaborationService.connect() when the WebSocket constructor throws: the
\* catch block rejects the promise, this.connectionId is not assigned.
SessConnectThrows ==
    /\ SessConnectCreates
    /\ LET r == MgrConnectThrows(Mgr, getWebSocketUrl(session.schemaId), now)
       IN  /\ SetMgr(r.mgr)
           /\ last' = [op |-> "sessionConnect", created |-> FALSE,
                       thrown |-> r.thrown,
                       outcome |-> IF r.thrown THEN "rejected" ELSE "pending",
                       sessionBefore |-> session, before |-> Mgr]
    /\ session' = [session EXCEPT !.afterDisconnect = FALSE]
    /\ UNCHANGED <<now, stimers>>

\* A caller of the Session: one of the four send methods.
SessionSend(kind) ==
    /\ SetMgr(SessSend(Mgr, session, kind).mgr)
    /\ last' = [op |-> "sessionSend", kind |-> kind,
                thrown |-> SessSend(Mgr, session, kind).thrown,
                sessionBefore |-> session, sentBefore |-> SentLogs]
    /\ UNCHANGED <<now, sessVars>>

\* A caller of the Session: on(event, handler), off(event, handler)
EventTopics ==
    { "connected", "disconnected", "user_joined", "user_left", "cursor_update",
      "schema_change", "user_selection", "presence_update", "error" }

RECURSIVE SumOver(_, _)
SumOver(f, ks) ==
    IF ks = {} THEN 0
    ELSE LET k == CHOOSE x \in ks : TRUE IN Len(f[k]) + SumOver(f, ks \ {k})
Subscriptions == SumOver(session.eventHandlers, DOMAIN session.eventHandlers)

SessionOn(event, handler) ==
    /\ session' = On(session, event, handler)
    /\ last' = [op |-> "on"]
    /\ UNCHANGED <<now, mgrVars, stimers>>

SessionOff(event, handler) ==
    /\ session' = Off(session, event, handler)
    /\ last' = [op |-> "off"]
    /\ UNCHANGED <<now, mgrVars, stimers>>

\* The frames a server can send.
MessageTypes ==
    { "connection_established", "user_joined", "user_left", "cursor_update",
      "schema_change", "user_selection", "presence_update", "pong", "future" }
PayloadTypes ==
    { "user_joined", "user_left", "cursor_update", "schema_change",
      "user_selection", "presence_update" }
PayloadField(type) ==
    IF type = "user_joined" THEN "user"
    ELSE IF type = "user_left" THEN "userId"
    ELSE IF type = "connection_established" THEN "clientId"
    ELSE "data"
Payloads == { Undefined, Str("u2"), Obj([userId |-> Str("u2")]) }
CursorPayloads ==
    Payloads \cup { Null, Obj([userId |-> Str("")]), Obj([userId |-> Num(7)]),
                    Obj([username |-> Str("n")]) }
Envelope(type, field, payload) ==
    Obj(IF payload = Undefined THEN ("type" :> Str(type))
        ELSE ("type" :> Str(type)) @@ (field :> payload))
Frames ==
    { Unparseable, Null, Str("text") }
    \cup { Envelope(type, PayloadField(type), p) : type \in MessageTypes, p \in Payloads }
    \cup { Envelope("cursor_update", field, p) :
               field \in {"data", "cursor"}, p \in CursorPayloads }

\* The message event of socket k, which the Session opened.
SocketMessage(k, frame) ==
    /\ sockets[k].owner = "session"
    /\ sockets[k].state = "OPEN"
    /\ SetMgr(OnMessage(Mgr, session, frame).mgr)
    /\ session' = OnMessage(Mgr, session, frame).ss
    /\ last' = [op |-> "message", sock |-> k, frame |-> frame,
                invoked |-> OnMessage(Mgr, session, frame).invoked,
                escaped |-> OnMessage(Mgr, session, frame).escaped,
                sessionBefore |-> session, sentBefore |-> SentLogs]
    /\ UNCHANGED <<now, stimers>>

\* CollaborationService.disconnect()
SessDisconnect ==
    /\ IF session.connectionId # NoId /\ session.currentUser # NoUser
          /\ session.isConnected
       THEN /\ SetMgr(SessSendMessage(Mgr, session, LeaveMessage(session)))
            /\ stimers' = [stimers EXCEPT !.leave = Append(@, now)]
            /\ session' = [session EXCEPT
                             !.isIntentionalDisconnect = TRUE,
                             !.isConnected = FALSE,
                             !.afterDisconnect = TRUE]
       ELSE IF session.connectionId # NoId
       THEN /\ SetMgr(MgrDisconnect(Mgr, session.connectionId))
            /\ session' = [session EXCEPT
                             !.isIntentionalDisconnect = TRUE,
                             !.connectionId = NoId,
                             !.isConnected = FALSE,
                             !.afterDisconnect = TRUE]
            /\ UNCHANGED stimers
       ELSE /\ session' = [session EXCEPT
                             !.isIntentionalDisconnect = TRUE,
                             !.isConnected = FALSE,
                             !.afterDisconnect = TRUE]
            /\ UNCHANGED <<mgrVars, stimers>>
    /\ last' = [op |-> "sessionDisconnect", id |-> session.connectionId,
                wasConnected |-> session.isConnected]
    /\ UNCHANGED now

\* The 200 ms timer of options.onOpen fires: user_join is sent.  An older
\* 200 ms timer, and a 100 ms timer set no later, have fired before.
JoinFire(j) ==
    /\ now > stimers.join[j]
    /\ \A i \in DOMAIN stimers.join : i >= j
    /\ \A i \in DOMAIN stimers.leave : stimers.leave[i] > stimers.join[j]
    /\ SetMgr(IF session.isConnected /\ session.connectionId # NoId
              THEN SessSendMessage(Mgr, session, JoinMessage(session))
              ELSE Mgr)
    /\ stimers' = [stimers EXCEPT !.join = MapDel(@, {j})]
    /\ last' = [op |-> "joinTimer", timer |-> j]
    /\ UNCHANGED <<now, session>>

\* The 100 ms timer of disconnect() fires: the manager's disconnect is called
\* with the session's current connection id.
LeaveFire ==
    /\ stimers.leave # << >>
    /\ now > Head(stimers.leave)
    /\ IF session.connectionId # NoId
       THEN /\ SetMgr(MgrDisconnect(Mgr, session.connectionId))
            /\ session' = [session EXCEPT !.connectionId = NoId]
       ELSE UNCHANGED <<mgrVars, session>>
    /\ stimers' = [stimers EXCEPT !.leave = Tail(@)]
    /\ last' = [op |-> "leaveTimer", id |-> session.connectionId]
    /\ UNCHANGED now

\* The manager under callers of its public methods.
Next ==
    \/ (now < MaxTime /\ Tick)
    \/ (Len(sockets) < MaxSockets /\ \E url \in Urls, e \in BOOLEAN : Connect(url, e))
    \/ \E k \in DOMAIN sockets : SocketOpen(k)
    \/ \E k \in DOMAIN sockets : SocketClose(k)
    \/ (Len(sockets) < MaxSockets /\ \E h \in DOMAIN timers : RetryFire(h))
    \/ \E id \in KnownIds : Disconnect(id)
    \/ DisconnectAll
    \/ \E url \in Urls, e \in BOOLEAN : ConnectThrows(url, e)
    \/ \E h \in DOMAIN timers : RetryFireThrows(h)
    \/ \E id \in KnownIds, message \in CallerMessages :
          /\ IsConnected(Mgr, id) => Len(sockets[connections[id]].sent) < MaxSent
          /\ SendMessage(id, message)

Spec == Init /\ [][Next]_vars

\* The Session as the manager's only caller.
SessionNext ==
    \/ (now < MaxSessionTime /\ Tick)
    \/ \E u \in Users, r \in SessionRooms : Initialize(u, r)
    \/ ((SessConnectCreates => Len(sockets) < MaxSessionSockets) /\ SessConnect)
    \/ SessDisconnect
    \/ \E j \in DOMAIN stimers.join : JoinFire(j)
    \/ LeaveFire
    \/ \E k \in DOMAIN sockets : SocketOpen(k)
    \/ \E k \in DOMAIN sockets : SocketClose(k)
    \/ (Len(sockets) < MaxSessionSockets /\ \E h \in DOMAIN timers : RetryFire(h))

SpecSession == Init /\ [][SessionNext]_vars

\* The Session as the manager's only caller, with a WebSocket constructor that
\* may throw.
SessionCallsNext ==
    \/ (now < MaxCallTime /\ Tick)
    \/ \E u \in Users, r \in SessionRooms : Initialize(u, r)
    \/ ((SessConnectCreates => Len(sockets) < MaxCallSockets) /\ SessConnect)
    \/ SessConnectThrows
    \/ SessDisconnect
    \/ \E j \in DOMAIN stimers.join : JoinFire(j)
    \/ LeaveFire
    \/ \E k \in DOMAIN sockets : SocketOpen(k)
    \/ \E k \in DOMAIN sockets : SocketClose(k)
    \/ (Len(sockets) < MaxCallSockets /\ \E h \in DOMAIN timers : RetryFire(h))
    \/ \E h \in DOMAIN timers : RetryFireThrows(h)
    \/ \E kind \in SendKinds :
          /\ \A k \in DOMAIN sockets : Len(sockets[k].sent) < MaxSent
          /\ SessionSend(kind)

SpecSessionCalls == Init /\ [][SessionCallsNext]_vars

\* The Session under a caller that initializes it again, with another user
\* or another room.
RebindUsers == { "u1", "u2" }

RebindNext ==
    \/ (now < MaxCallTime /\ Tick)
    \/ \E u \in RebindUsers, r \in Rooms : Initialize(u, r)
    \/ ((SessConnectCreates => Len(sockets) < MaxCallSockets) /\ SessConnect)
    \/ SessDisconnect
    \/ \E j \in DOMAIN stimers.join : JoinFire(j)
    \/ LeaveFire
    \/ \E k \in DOMAIN sockets : SocketOpen(k)

SpecRebind == Init /\ [][RebindNext]_vars

\* The Session with subscribers and a server that sends frames.
EventsNext ==
    \/ (now < MaxEventTime /\ Tick)
    \/ \E j \in DOMAIN stimers.join : JoinFire(j)
    \/ \E u \in Users, r \in SessionRooms : Initialize(u, r)
    \/ ((SessConnectCreates => Len(sockets) < MaxEventSockets) /\ SessConnect)
    \/ \E k \in DOMAIN sockets : SocketOpen(k)
    \/ (Subscriptions < MaxHandlers
          /\ \E event \in EventTopics, handler \in Handlers : SessionOn(event, handler))
    \/ \E event \in EventTopics, handler \in Handlers : SessionOff(event, handler)
    \/ \E k \in DOMAIN sockets, frame \in Frames :
          /\ \A j \in DOMAIN sockets : Len(sockets[j].sent) < MaxSent
          /\ SocketMessage(k, frame)

SpecEvents == Init /\ [][EventsNext]_vars

\* The Session with subscribers that change the subscriptions of the event
\* they are called for.
UserLeftFrame == Envelope("user_left", "userId", Str("u2"))

OnceNext ==
    \/ \E u \in Users, r \in SessionRooms : Initialize(u, r)
    \/ ((SessConnectCreates => Len(sockets) < MaxEventSockets) /\ SessConnect)
    \/ \E k \in DOMAIN sockets : SocketOpen(k)
    \/ (Subscriptions < MaxOnceHandlers
          /\ \E handler \in SelfChangingHandlers : SessionOn("user_left", handler))
    \/ \E handler \in SelfChangingHandlers : SessionOff("user_left", handler)
    \/ (Subscriptions <= MaxOnceHandlers
          /\ \E k \in DOMAIN sockets : SocketMessage(k, UserLeftFrame))

SpecOnce == Init /\ [][OnceNext]_vars

\* One caller connects once with enableReconnect; from then on only the
\* sockets and the timers act.
ChainNext ==
    \/ (now < MaxChainTime /\ Tick)
    \/ (Len(sockets) = 0 /\ \E url \in Urls : Connect(url, TRUE))
    \/ \E k \in DOMAIN sockets : SocketOpen(k)
    \/ \E k \in DOMAIN sockets : SocketClose(k)
    \/ (Len(sockets) < MaxChainSockets /\ \E h \in DOMAIN timers : RetryFire(h))

SpecChain == Init /\ [][ChainNext]_vars

\* The backoff computation of socket.onclose alone, for every attempt count
\* that schedules a retry and jitter values across [0, 2000).
JitterSamples == { 100 * j : j \in 0 .. 19 } \cup { jitterRange - 1 }

InitDelay ==
    /\ now = 0
    /\ sockets = << >>
    /\ connections = EmptyMap
    /\ reconnectTimeouts = EmptyMap
    /\ reconnectAttempts = EmptyMap
    /\ timers = EmptyMap
    /\ session = NewSession
    /\ stimers = NoShortTimers
    /\ \E n \in 0 .. maxReconnectAttempts - 1, j \in JitterSamples :
          last = [op |-> "backoff", attempts |-> n, jitter |-> j, delay |-> -1]

ComputeDelay ==
    /\ last.op = "backoff"
    /\ last.delay = -1
    /\ last' = [last EXCEPT !.delay = ReconnectDelay(last.attempts, last.jitter)]
    /\ UNCHANGED <<now, mgrVars, sessVars>>

SpecDelay == InitDelay /\ [][ComputeDelay]_vars

\* The conflict-resolution methods on pairs of operations.
OperationTypes == { "table_update", "table_delete" }
TableIds == { "t1", "t2" }
TableData ==
    { << >>, [name |-> "x"], [name |-> "y"], [color |-> "y"],
      [name |-> "x", color |-> "x"] }
Operations ==
    [type : OperationTypes, tableId : TableIds, timestamp : Timestamps, data : TableData]

InitOps ==
    /\ now = 0
    /\ sockets = << >>
    /\ connections = EmptyMap
    /\ reconnectTimeouts = EmptyMap
    /\ reconnectAttempts = EmptyMap
    /\ timers = EmptyMap
    /\ session = NewSession
    /\ stimers = NoShortTimers
    /\ \E a \in Operations, b \in Operations :
          last = [op |-> "operations", a |-> a, b |-> b]

Transform ==
    /\ last.op = "operations"
    /\ last' = [op |-> "transform", a |-> last.a, b |-> last.b,
                result |-> TransformOperation(last.a, last.b),
                sessionBefore |-> session]
    /\ UNCHANGED <<now, mgrVars, sessVars>>

Resolve ==
    /\ last.op = "operations"
    /\ last' = [op |-> "resolve", a |-> last.a, b |-> last.b,
                result |-> ResolveConflict(last.a, last.b),
                sessionBefore |-> session]
    /\ UNCHANGED <<now, mgrVars, sessVars>>

OpsNext == Transform \/ Resolve

SpecOps == InitOps /\ [][OpsNext]_vars

----------------------------------------------------------------------------
(* Claims about the Connection Manager *)

\* The endpoint key of a tracked connection: the last two path segments of
\* the URL its socket was constructed for.
EndpointKey(id) == UrlPath(sockets[connections[id]].url)

\* What the contract calls a reconnect-eligible close.
Eligible(enable, code, wasClean) ==
    /\ enable
    /\ code \notin {NormalClosure, GoingAway, AbnormalClosure}
    /\ ~wasClean

PendingTimersOf(id) == { h \in PendingTimers : timers[h].id = id }

\* C1: in every reachable state at most one tracked connection record exists
\* for every endpoint key.
C1_OnePerEndpoint ==
    \A id1 \in DOMAIN connections, id2 \in DOMAIN connections :
        EndpointKey(id1) = EndpointKey(id2) => id1 = id2

\* C3: a close event with code 1000, 1001 or 1006, or with wasClean, or on a
\* connection whose enableReconnect is false, schedules no retry timer, and
\* the retry counter of that connection is removed.
C3_IneligibleCloseSchedulesNothing ==
    (/\ last.op = "close"
     /\ \/ last.code \in {NormalClosure, GoingAway, AbnormalClosure}
        \/ last.wasClean
        \/ ~last.enableReconnect)
    => /\ ~last.scheduled
       /\ PendingTimersOf(last.id) = {}
       /\ last.id \notin DOMAIN reconnectAttempts

C3_Witness ==
    /\ last.op = "close"
    /\ last.enableReconnect
    /\ last.code = AbnormalClosure
    /\ ~last.wasClean
    /\ last.established

\* C4: an eligible close event on a connection with fewer than 5 recorded
\* attempts schedules exactly one retry timer for that connection; for a
\* first closure (attempt count 0) its delay lies in [2000, 4000) ms.
C4_EligibleCloseSchedulesOne ==
    (/\ last.op = "close"
     /\ Eligible(last.enableReconnect, last.code, last.wasClean)
     /\ last.attempts < maxReconnectAttempts)
    => /\ last.scheduled
       /\ PendingTimersOf(last.id) = { last.sock }
       /\ last.id \in DOMAIN reconnectTimeouts
       /\ reconnectTimeouts[last.id] = last.sock
       /\ last.attempts = 0 => (2000 <= last.delay /\ last.delay < 4000)

C4_Witness ==
    /\ last.op = "close"
    /\ last.enableReconnect
    /\ last.code = InternalError
    /\ ~last.wasClean
    /\ last.attempts = 0
    /\ last.delay = 3999
    /\ PendingTimersOf(last.id) = { last.sock }

\* C2: once 5 consecutive reconnect attempts have failed, no further reconnect
\* is scheduled and the retry state of that connection is cleared.
C2_GiveUpAfterFive ==
    (/\ last.op = "close"
     /\ Eligible(last.enableReconnect, last.code, last.wasClean)
     /\ last.gen >= maxReconnectAttempts)
    => /\ ~last.scheduled
       /\ last.id \notin DOMAIN reconnectAttempts
       /\ last.id \notin DOMAIN reconnectTimeouts

\* C5 as stated: for every attempt number n in 0..4 the delay satisfies
\* base*2^n <= delay <= min(base*2^n, cap) + 2000 ms.
C5_DelayAtLeastUncapped ==
    (last.op = "backoff" /\ last.delay # -1)
    => /\ baseReconnectDelay * Pow2(last.attempts) <= last.delay
       /\ last.delay <= Min(baseReconnectDelay * Pow2(last.attempts), delayCap) + jitterRange

\* C5 as amended: for every attempt number n in 0..4 the delay satisfies
\* min(base*2^n, cap) <= delay <= min(base*2^n, cap) + 2000 ms.
C5_DelayWithinCappedRange ==
    (last.op = "backoff" /\ last.delay # -1)
    => /\ Min(baseReconnectDelay * Pow2(last.attempts), delayCap) <= last.delay
       /\ last.delay <= Min(baseReconnectDelay * Pow2(last.attempts), delayCap) + jitterRange

C5_Witness ==
    /\ last.op = "backoff"
    /\ last.attempts = maxReconnectAttempts - 1
    /\ last.jitter = jitterRange - 1
    /\ last.delay = delayCap + jitterRange - 1

\* C6: for consecutive eligible closures with no successful open in between,
\* the attempt number used for the k-th scheduled retry delay is k - 1, so the
\* base part of the delay is 2000, 4000, 8000, 16000 and then 30000 ms.
C6_BackoffGrows ==
    (last.op = "close" /\ last.scheduled)
    => /\ last.attempts = last.gen
       /\ Min(baseReconnectDelay * Pow2(last.gen), delayCap) <= last.delay
       /\ last.delay < Min(baseReconnectDelay * Pow2(last.gen), delayCap) + jitterRange

\* C7: connect(url, {enableReconnect: true}) called twice for the same room
\* before any socket event of the first call: after the first socket's close
\* event exactly one connection record is tracked (the second call's), the
\* first socket was closed with code 1000, and no retry timer is pending for
\* the first connection.
C7_SecondConnectSurvives ==
    (/\ last.op = "close"
     /\ last.sock = 1
     /\ ~last.established
     /\ last.enableReconnect
     /\ Len(sockets) = 2
     /\ sockets[2].state = "CONNECTING"
     /\ sockets[2].enableReconnect
     /\ sockets[2].url = last.url)
    => /\ DOMAIN connections = { sockets[2].id }
       /\ connections[sockets[2].id] = 2
       /\ last.closeArg = NormalClosure
       /\ PendingTimersOf(last.id) = {}

\* C8: connect(url, options) for an endpoint that already has a record tears
\* that record down in every state the old record can be in: right after the
\* call no retry timer of that endpoint is pending.
C8_ConnectCancelsRetry ==
    last.op = "connect"
    => \A h \in PendingTimers : UrlPath(timers[h].url) # UrlPath(last.url)

\* C9: after disconnect(id), a retry timer that was pending for id never
\* makes a connection attempt: no timer of id is pending any more, and id has
\* no attempt-counter entry, no retry-timer entry and no tracked socket.
C9_DisconnectAbortsRetry ==
    last.op = "disconnect"
    => /\ PendingTimersOf(last.id) = {}
       /\ last.id \notin DOMAIN reconnectAttempts
       /\ last.id \notin DOMAIN reconnectTimeouts
       /\ last.id \notin DOMAIN connections

C9_Witness ==
    /\ last.op = "disconnect"
    /\ last.hadTimer
    /\ PendingTimersOf(last.id) = {}

\* C11: disconnect(id) is idempotent: for an id that was never created, or
\* that was just disconnected, it changes no tracked connection, no retry timer
\* and no retry counter, and calling it twice is calling it once.
C11_DisconnectIdempotent ==
    /\ MgrDisconnect(Mgr, UnknownId) = Mgr
    /\ last.op = "disconnect" => MgrDisconnect(Mgr, last.id) = Mgr
    /\ \A id \in KnownIds :
          MgrDisconnect(MgrDisconnect(Mgr, id), id) = MgrDisconnect(Mgr, id)

C11_Witness ==
    /\ last.op = "disconnect"
    /\ last.id = UnknownId
    /\ DOMAIN connections # {}
    /\ PendingTimers # {}
    /\ DOMAIN reconnectAttempts # {}

\* C12: after disconnectAll() every socket that was tracked has been closed
\* with code 1000, the connection, retry-timer and retry-counter maps are
\* empty, and no retry timer set before the call is pending any more: none can
\* make a connection attempt afterwards.  The close event of a socket the
\* manager has closed, delivered later, schedules no retry.
C12_DisconnectAllClearsAll ==
    /\ last.op = "disconnectAll"
       => /\ \A k \in last.tracked :
                sockets[k].state = "CLOSING" /\ sockets[k].closeArg = NormalClosure
          /\ connections = EmptyMap
          /\ reconnectTimeouts = EmptyMap
          /\ reconnectAttempts = EmptyMap
          /\ PendingTimers = {}
    /\ (last.op = "close" /\ last.closeArg = NormalClosure) => ~last.scheduled

C12_Witness ==
    /\ last.op = "disconnectAll"
    /\ last.tracked # {}
    /\ last.hadTimer


\* C13: sendMessage(id, message) transmits the message exactly when a socket
\* is tracked under id and is OPEN; in every other state the message is
\* dropped.  Nothing is transmitted later: a socket's log of transmissions
\* grows only in a sendMessage call for the id it is tracked under.
C13_SendExactlyWhenOpen ==
    /\ [](last.op = "send"
          => \A k \in DOMAIN sockets :
                sockets[k].sent =
                    IF last.state = "OPEN" /\ k = last.sock
                    THEN Append(last.sentBefore[k], last.message)
                    ELSE last.sentBefore[k])
    /\ [][\A k \in DOMAIN sockets :
             (sockets'[k].state # "CLOSED" /\ sockets'[k].sent # sockets[k].sent)
             => /\ last'.op = "send"
                /\ last'.sock = k
                /\ sockets[k].state = "OPEN"
                /\ sockets'[k].sent = Append(sockets[k].sent, last'.message)]_vars

C13_Witness ==
    /\ last.op = "send"
    /\ last.state = "NOT_FOUND"
    /\ last.timerPending
    /\ \E k \in DOMAIN sockets : sockets[k].sent = << [type |-> "ping"] >>
    /\ \A k \in DOMAIN sockets : sockets[k].sent = last.sentBefore[k]

----------------------------------------------------------------------------
(* Claims about the Session *)

\* C15: when constructing the socket throws, the manager's connect throws to
\* its caller, constructs no socket, registers no connection record, retry
\* counter or retry timer and schedules no retry; Session.connect() rejects
\* its promise and keeps its connection id.
C15_ThrowRegistersNothing ==
    ((last.op = "sessionConnect" /\ last.thrown) \/ last.op = "connectThrows")
    => /\ last.thrown
       /\ Len(sockets) = Len(last.before.sockets)
       /\ DOMAIN connections \subseteq DOMAIN last.before.connections
       /\ DOMAIN reconnectAttempts \subseteq DOMAIN last.before.reconnectAttempts
       /\ DOMAIN reconnectTimeouts \subseteq DOMAIN last.before.reconnectTimeouts
       /\ PendingTimers \subseteq DOMAIN last.before.timers
       /\ last.op = "sessionConnect"
          => /\ last.outcome = "rejected"
             /\ session.connectionId = last.sessionBefore.connectionId
             /\ session.isConnected = last.sessionBefore.isConnected

C15_Witness ==
    /\ last.op = "sessionConnect"
    /\ last.thrown
    /\ last.outcome = "rejected"
    /\ DOMAIN last.before.connections # {}
    /\ PendingTimers # {}

\* C16: Session.connect() before initialize(user, roomId) rejects, does not
\* call the manager's connect and leaves the session's connection id and
\* connected flag unchanged.
C16_ConnectBeforeInitializeRejects ==
    (/\ last.op = "sessionConnect"
     /\ \/ last.sessionBefore.currentUser = NoUser
        \/ last.sessionBefore.schemaId = NoRoom)
    => /\ last.outcome = "rejected"
       /\ ~last.created
       /\ Mgr = last.before
       /\ session.connectionId = last.sessionBefore.connectionId
       /\ session.isConnected = last.sessionBefore.isConnected

C16_Witness ==
    /\ last.op = "sessionConnect"
    /\ last.sessionBefore.currentUser = NoUser
    /\ last.sessionBefore.isIntentionalDisconnect
    /\ last.outcome = "rejected"
    /\ sockets = << >>

\* C17: Session.connect() while the session is connected (its connected flag
\* is set) resolves at once, does not call the manager's connect and leaves
\* the tracked connections and the session's connection id unchanged.
C17_ConnectWhileConnectedIsNoOp ==
    (/\ last.op = "sessionConnect"
     /\ ~last.thrown
     /\ last.sessionBefore.isConnected)
    => /\ last.outcome = "resolved"
       /\ ~last.created
       /\ Mgr = last.before
       /\ session.connectionId = last.sessionBefore.connectionId

\* C18: the promise of Session.connect() is resolved only after the connection
\* has reached OPEN and the user_join envelope has been transmitted on it.
C18_ResolvedAfterJoinSent ==
    (last.op = "open" /\ last.resolves)
    => /\ sockets[last.sock].state = "OPEN"
       /\ \E i \in DOMAIN sockets[last.sock].sent :
             sockets[last.sock].sent[i].type = "user_join"

\* The sockets on which a user_leave envelope has been transmitted.
LeaveSentOn ==
    { k \in DOMAIN sockets :
        \E i \in DOMAIN sockets[k].sent : sockets[k].sent[i].type = "user_leave" }

\* C19: Session.disconnect() leaves the connected flag false from every
\* session state; if the session was connected, a user_leave envelope has been
\* transmitted on its connection, which is still open then, and the deferred
\* manager disconnect closes that connection afterwards.
C19_LeaveThenClose ==
    /\ last.op = "sessionDisconnect"
       => /\ ~session.isConnected
          /\ last.wasConnected
             => \E k \in LeaveSentOn :
                   /\ sockets[k].state = "OPEN"
                   /\ sockets[k].sent[Len(sockets[k].sent)].type = "user_leave"
    /\ (last.op = "leaveTimer" /\ stimers.leave = << >>)
       => \A k \in LeaveSentOn : sockets[k].state # "OPEN"

\* C20: sendCursorUpdate, sendSchemaChange, sendUserSelection and
\* updatePresence, called while the session is not connected, transmit
\* nothing, leave the session state unchanged and do not throw.
C20_SendWhileDisconnectedIsNoOp ==
    (last.op = "sessionSend" /\ ~last.sessionBefore.isConnected)
    => /\ ~last.thrown
       /\ SentLogs = last.sentBefore
       /\ session = last.sessionBefore

C32_ScheduledOnlyWhenClosed ==
    \A h \in PendingTimers : timers[h].id \notin DOMAIN connections

\* C33: connect(url) replaces a tracked connection exactly when that
\* connection was created for a URL with the same last two path segments,
\* whatever the room identifier is.
C33_SameEndpointByPath ==
    [][(last'.op = "connect" /\ Len(sockets') = Len(sockets) + 1)
       => \A id \in DOMAIN connections :
             (id \in DOMAIN connections' /\ connections'[id] = connections[id])
             <=> UrlPath(sockets[connections[id]].url) # UrlPath(last'.url)]_vars

\* C34: after an unexpected closure and a successful automatic re-open the
\* connection id the Session stores is the id of the live connection, so that
\* user_join, the send methods and disconnect() reach it.
C34_SessionFollowsReconnect ==
    (/\ last.op = "open"
     /\ sockets[last.sock].owner = "session"
     /\ ~last.resolves
     /\ ~session.afterDisconnect)
    => /\ session.connectionId = last.id
       /\ IsConnected(Mgr, session.connectionId)

\* C35: when connect() has created a new connection before the deferred
\* callback of an earlier disconnect() runs, the callback leaves that new
\* connection tracked in the manager and its id stored in the session.
C35_DeferredCloseSparesNewConnection ==
    [][(last.op = "sessionConnect" /\ last.created /\ last'.op = "leaveTimer")
       => /\ session'.connectionId = session.connectionId
          /\ session.connectionId \in DOMAIN connections']_vars

\* C36: every connection Session.connect() creates, the first one and one
\* created after a disconnect() alike, has automatic reconnection enabled.
C36_ReconnectEnabledOnEveryConnect ==
    (last.op = "sessionConnect" /\ last.created)
    => sockets[Len(sockets)].enableReconnect

\* The session has a live or pending connection: a socket it opened has not
\* closed yet, or it holds a connection id.
SessionHasConnection ==
    \/ session.connectionId # NoId
    \/ \E k \in LiveSockets : sockets[k].owner = "session"

\* C28: the user and the room bound to a Session do not change while the
\* session has a live or pending connection.
C28_BoundWhileConnected ==
    [][SessionHasConnection
        => /\ session'.currentUser = session.currentUser
           /\ session'.schemaId = session.schemaId]_vars

----------------------------------------------------------------------------
(* Claims about the Event Bus and the inbound messages *)

InvokedHandlers == [i \in DOMAIN last.invoked |-> last.invoked[i].handler]
FrameType(frame) == Get(frame, "type")

\* C21: emit(topic, payload) invokes the handlers subscribed to the topic in
\* subscription order, all of them whether or not one of them throws, and no
\* exception escapes emit.
C21_EmitReachesEverySubscriber ==
    /\ (last.op = "open" /\ sockets[last.sock].owner = "session")
       => /\ InvokedHandlers = HandlersOf(session, "connected")
          /\ ~last.escaped
    /\ (last.op = "message" /\ FrameType(last.frame) = Str("user_left"))
       => /\ InvokedHandlers = HandlersOf(session, "user_left")
          /\ ~last.escaped
    /\ (last.op = "message" /\ last.invoked # << >>)
       => /\ InvokedHandlers = HandlersOf(session, last.invoked[1].event)
          /\ \A i \in DOMAIN last.invoked : last.invoked[i].data = last.invoked[1].data
          /\ ~last.escaped

C21_Witness ==
    /\ last.op = "message"
    /\ FrameType(last.frame) = Str("user_left")
    /\ InvokedHandlers = << "thrower", "quiet" >>

\* An object with a non-empty string userId
HasStringUserId(value) ==
    /\ value.t = "object"
    /\ "userId" \in DOMAIN value.v
    /\ value.v["userId"].t = "string"
    /\ value.v["userId"].v # ""

Malformed(frame) ==
    LET type == FrameType(frame)
        payload == Get(frame, PayloadField(type.v))
    IN  IF type = Str("user_left") THEN ~(payload.t = "string" /\ payload.v # "")
        ELSE IF type = Str("cursor_update") THEN ~HasStringUserId(payload)
        ELSE payload.t # "object"

\* C23: an inbound frame of a payload-carrying type whose payload is missing
\* or has the wrong shape is dropped before dispatch: no subscriber is invoked
\* and no exception leaves the message callback.
C23_MalformedPayloadDropped ==
    (/\ last.op = "message"
     /\ last.frame.t = "object"
     /\ FrameType(last.frame) \in { Str(type) : type \in PayloadTypes }
     /\ Malformed(last.frame))
    => /\ last.invoked = << >>
       /\ ~last.escaped

\* C24: an inbound frame of an unknown type, of type connection_established or
\* of type pong changes no session state and invokes no subscriber.
C24_OtherTypesHaveNoEffect ==
    (/\ last.op = "message"
     /\ last.frame # Unparseable
     /\ last.frame # Null
     /\ FrameType(last.frame) \notin { Str(type) : type \in PayloadTypes })
    => /\ last.invoked = << >>
       /\ ~last.escaped
       /\ session = last.sessionBefore
       /\ SentLogs = last.sentBefore

C24_Witness ==
    /\ last.op = "message"
    /\ FrameType(last.frame) = Str("connection_established")
    /\ HandlersOf(session, "user_joined") # << >>
    /\ last.invoked = << >>

----------------------------------------------------------------------------
(* Claims about conflict resolution *)

\* C25: resolveConflict(local, remote) returns remote, whatever the contents
\* and the timestamps of the two, and changes no session state.
C25_RemoteWins ==
    last.op = "resolve"
    => /\ last.result = last.b
       /\ session = last.sessionBefore

C25_Witness ==
    /\ last.op = "resolve"
    /\ last.a # last.b
    /\ GetTime(last.a.timestamp) > GetTime(last.b.timestamp)
    /\ last.result = last.b

\* The keys of the data of both, and the operation with the later timestamp
DataKeys(op) == DOMAIN op.data
Later(a, b) == IF GetTime(a.timestamp) > GetTime(b.timestamp) THEN a ELSE b
BothTableUpdatesOfOneTable(a, b) ==
    a.type = "table_update" /\ b.type = "table_update" /\ a.tableId = b.tableId

\* C26: transformOperation on two table_update operations of the same table
\* returns data that is the shallow union of both data, with the value of the
\* operation with the later timestamp for a key of both, and lastModified
\* equal to the greater of the two timestamps.
C26_MergeKeepsLaterValues ==
    (last.op = "transform" /\ BothTableUpdatesOfOneTable(last.a, last.b))
    => /\ DOMAIN last.result.data
            = DataKeys(last.a) \cup DataKeys(last.b) \cup { "lastModified" }
       /\ \A k \in DataKeys(last.a) \ DataKeys(last.b) :
             last.result.data[k] = last.a.data[k]
       /\ \A k \in DataKeys(last.b) \ DataKeys(last.a) :
             last.result.data[k] = last.b.data[k]
       /\ \A k \in DataKeys(last.a) \cap DataKeys(last.b) :
             GetTime(last.a.timestamp) # GetTime(last.b.timestamp)
             => last.result.data[k] = Later(last.a, last.b).data[k]
       /\ last.result.data["lastModified"]
            = Max(GetTime(last.a.timestamp), GetTime(last.b.timestamp))

\* C27: transformOperation returns its first argument unchanged when the two
\* operations are of different tables or are not both table_update.
C27_OtherPairsPassThrough ==
    (last.op = "transform" /\ ~BothTableUpdatesOfOneTable(last.a, last.b))
    => last.result = last.a

C27_Witness ==
    /\ last.op = "transform"
    /\ last.a.type = "table_update"
    /\ last.b.type = "table_update"
    /\ last.a.tableId # last.b.tableId
    /\ last.a.data # last.b.data
    /\ last.result = last.a

----------------------------------------------------------------------------
(* Claims about the inbound cursor_update in its other structure *)

\* C29: an inbound cursor_update that carries its cursor object in the cursor
\* field instead of data is validated the same way: with a non-empty string
\* userId it is forwarded to the cursor_update subscribers, otherwise dropped.
C29_CursorFieldFallback ==
    (/\ last.op = "message"
     /\ FrameType(last.frame) = Str("cursor_update")
     /\ Get(last.frame, "data") = Undefined)
    => IF HasStringUserId(Get(last.frame, "cursor"))
       THEN /\ InvokedHandlers = HandlersOf(session, "cursor_update")
            /\ \A i \in DOMAIN last.invoked :
                  last.invoked[i].data = Get(last.frame, "cursor")
       ELSE last.invoked = << >>

----------------------------------------------------------------------------
(* Claims about the order of the envelopes on a connection *)

\* C30: on every connection the Session opens, user_join is the first
\* envelope transmitted.
C30_JoinIsFirstEnvelope ==
    \A k \in DOMAIN sockets :
        (sockets[k].owner = "session" /\ sockets[k].sent # << >>)
        => sockets[k].sent[1].type = "user_join"

----------------------------------------------------------------------------
(* Claims about subscriptions that change during an emit *)

RECURSIVE Count(_, _)
Count(hs, handler) ==
    IF hs = << >> THEN 0
    ELSE (IF Head(hs) = handler THEN 1 ELSE 0) + Count(Tail(hs), handler)

\* C37: during one emit every handler that was subscribed when the emit began
\* and is not unsubscribed during it is invoked exactly once, also when a
\* handler calls off() or on() meanwhile.  Of the handlers of the model only
\* "once" is unsubscribed during an emit, by itself.
C37_EmitUnderChangingSubscriptions ==
    (last.op = "message" /\ FrameType(last.frame) = Str("user_left"))
    => \A handler \in (Handlers \cup SelfChangingHandlers) \ { "once" } :
          Count(InvokedHandlers, handler)
            = Count(HandlersOf(last.sessionBefore, "user_left"), handler)

----------------------------------------------------------------------------
(* Claims about what the retry maps keep *)

\* The ids with a retry timer that has not fired and was not cancelled.
PendingRetryIds == { timers[h].id : h \in DOMAIN timers }

\* C38: every entry of the retry-counter map and of the retry-timer map
\* belongs to a connection id that has a tracked socket or a retry timer
\* that has not yet fired.
C38_RetryBookkeepingDoesNotAccumulate ==
    \A id \in DOMAIN reconnectAttempts \cup DOMAIN reconnectTimeouts :
        id \in DOMAIN connections \cup PendingRetryIds

----------------------------------------------------------------------------
(* Claims about a connect whose socket construction throws *)

\* C39: if new WebSocket(url) throws inside connect(url, options), the
\* tracked connections, the retry timers and the retry counters are what they
\* were before the call, and a connection that was open before the call is
\* still tracked and open.
C39_ThrowingConnectChangesNothing ==
    last.op = "connectThrows"
    => /\ connections = last.before.connections
       /\ reconnectTimeouts = last.before.reconnectTimeouts
       /\ reconnectAttempts = last.before.reconnectAttempts
       /\ \A id \in DOMAIN last.before.connections :
             last.before.sockets[last.before.connections[id]].state = "OPEN"
             => /\ id \in DOMAIN connections
                /\ sockets[connections[id]].state = "OPEN"

----------------------------------------------------------------------------
(* Claims about close events of replaced connections *)

\* A connection of the session other than socket k is tracked and open.
NewerConnectionOpen(conns, socks, k) ==
    \E id \in DOMAIN conns :
        /\ conns[id] # k
        /\ socks[conns[id]].owner = "session"
        /\ socks[conns[id]].state = "OPEN"

\* C40: a close event delivered for a connection that was already replaced
\* by a newer connect() does not clear the connected flag of the session
\* while the newer connection is open.
C40_LateCloseLeavesSessionConnected ==
    [][ (/\ last'.op = "close"
         /\ sockets[last'.sock].state # "CLOSED"
         /\ sockets'[last'.sock].state = "CLOSED"
         /\ NewerConnectionOpen(connections', sockets', last'.sock)
         /\ session.isConnected)
        => session'.isConnected ]_vars

=========================================================================
